---- MODULE Spec2Model ----
(***************************************************************************)
(* FullScanEngine of fullscan_cli.py (the second, configurable definition  *)
(* of the class, lines 243-337): per-source token streams, first-          *)
(* occurrence indexes, miss counts and line clusters; the syllabifier and  *)
(* tokenizer of the first definition (lines 16-122); rotate_log_file,      *)
(* write_log and main.                                                     *)
(*                                                                         *)
(* A text is a sequence of one-character strings; a token is such a        *)
(* sequence too.  A Python dict is a function whose DOMAIN is its key set. *)
(***************************************************************************)
EXTENDS Integers, Sequences, FiniteSets, TLC

(* ------------------------------ bounds -------------------------------- *)
\* longest raw text handed to ingest
MaxLen == 3
\* number of ingest calls of the single caller
MaxIngests == 2

(* --------------------------- character classes ------------------------ *)
\* the characters texts are drawn from: a vowel, a consonant, a punctuation
\* mark, a blank and the line separator
Alphabet == {"a", "b", ".", " ", "\n"}
\* [\w'] restricted to the characters the texts and words below are made of
WordChars == {"a", "b", "y", "A", "'", "s", "t", "r", "e", "n", "g", "h"}
\* [.,!?;:]
PunctChars == {".", ",", "!", "?", ";", ":"}
\* what str.strip() removes
Whitespace == {" ", "\n", "\t", "\r"}
\* [aeiou] under re.I
RegexVowels == {"a", "e", "i", "o", "u", "A", "E", "I", "O", "U"}

\* every character of the model
Chars == Alphabet \cup WordChars \cup PunctChars \cup Whitespace

SourceKeys == {"s1", "s2"}

RECURSIVE TextsOfLen(_)
TextsOfLen(n) ==
    IF n = 0 THEN {<<>>}
    ELSE {Append(t, c) : t \in TextsOfLen(n - 1), c \in Alphabet}

Texts == UNION {TextsOfLen(n) : n \in 0..MaxLen}

(* ------------------------------ str helpers --------------------------- *)
\* end (exclusive) of the maximal run of characters of S starting at i
RunEnd(s, i, S) ==
    CHOOSE j \in i..(Len(s) + 1) :
        /\ \A k \in i..(j - 1) : s[k] \in S
        /\ (j = Len(s) + 1 \/ s[j] \notin S)

\* start (inclusive) of the maximal run of characters of S ending at i
RunStart(s, i, S) ==
    CHOOSE j \in 0..i :
        /\ \A k \in (j + 1)..i : s[k] \in S
        /\ (j = 0 \/ s[j] \notin S)

\* raw.strip()
strip(raw) ==
    LET b == RunEnd(raw, 1, Whitespace)
        e == RunStart(raw, Len(raw), Whitespace)
    IN  IF b > Len(raw) THEN <<>> ELSE SubSeq(raw, b, e)

\* text.split('\n'), from position i on
RECURSIVE split_from(_, _)
split_from(text, i) ==
    LET j == RunEnd(text, i, Chars \ {"\n"})
    IN  IF j > Len(text) THEN <<SubSeq(text, i, Len(text))>>
        ELSE <<SubSeq(text, i, j - 1)>> \o split_from(text, j + 1)

split_lines(text) == split_from(text, 1)

(* ------------------------------ tokenizer ----------------------------- *)
\* re.findall(r"[\w']+[.,!?;:]*", text), from position i on
RECURSIVE findall_word_punct(_, _)
findall_word_punct(text, i) ==
    IF i > Len(text) THEN <<>>
    ELSE IF text[i] \in WordChars
         THEN LET j == RunEnd(text, i, WordChars)
                  k == RunEnd(text, j, PunctChars)
              IN  <<SubSeq(text, i, k - 1)>> \o findall_word_punct(text, k)
         ELSE findall_word_punct(text, i + 1)

\* re.findall(r"[\w']+", text), from position i on
RECURSIVE findall_word(_, _)
findall_word(text, i) ==
    IF i > Len(text) THEN <<>>
    ELSE IF text[i] \in WordChars
         THEN LET j == RunEnd(text, i, WordChars)
              IN  <<SubSeq(text, i, j - 1)>> \o findall_word(text, j)
         ELSE findall_word(text, i + 1)

\* re.match(r"([\w']+)([.,!?;:]*)", w).groups(); <<>> stands for no match
match_base_punc(w) ==
    LET j == RunEnd(w, 1, WordChars)
        k == RunEnd(w, j, PunctChars)
    IN  IF j = 1 THEN <<>>
        ELSE <<SubSeq(w, 1, j - 1), SubSeq(w, j, k - 1)>>

\* re.findall(r"[^aeiou]*[aeiou]+[^aeiou]*", word, re.I), from position i on
RECURSIVE syllabify_from(_, _)
syllabify_from(word, i) ==
    LET chars == {word[k] : k \in 1..Len(word)}
        v == RunEnd(word, i, chars \ RegexVowels)
    IN  IF v > Len(word) THEN <<>>
        ELSE LET c == RunEnd(word, v, RegexVowels)
                 e == RunEnd(word, c, chars \ RegexVowels)
             IN  <<SubSeq(word, i, e - 1)>> \o syllabify_from(word, e)

syllabify(word) == syllabify_from(word, 1)

RECURSIVE syllables_of(_)
syllables_of(words) ==
    IF words = <<>> THEN <<>>
    ELSE syllabify(Head(words)) \o syllables_of(Tail(words))

\* mutant of base_punc_of: "out.append(base)", the punctuation is dropped
RECURSIVE base_of(_)
base_of(words) ==
    IF words = <<>> THEN <<>>
    ELSE LET m == match_base_punc(Head(words))
         IN  (IF m = <<>> THEN <<>> ELSE <<m[1]>>) \o base_of(Tail(words))

\* tokenize_syllabic, word mode: "for w in words"
RECURSIVE base_punc_of(_)
base_punc_of(words) ==
    IF words = <<>> THEN <<>>
    ELSE LET m == match_base_punc(Head(words))
         IN  (IF m = <<>> THEN <<>> ELSE <<m[1] \o m[2]>>)
             \o base_punc_of(Tail(words))

tokenize_syllabic(mode, text) ==
    IF mode THEN syllables_of(findall_word(text, 1))
    ELSE base_punc_of(findall_word_punct(text, 1))

(* ------------------------------ dict helpers -------------------------- *)
\* {}
EmptyDict == [k \in {} |-> 0]
\* d[k] = v
dict_set(d, k, v) == (k :> v) @@ d
\* d.get(k), with "None" for an absent key
dict_get(d, k) == IF k \in DOMAIN d THEN d[k] ELSE "None"
\* d.get(k, default)
dict_get_default(d, k, default) == IF k \in DOMAIN d THEN d[k] ELSE default

(* ------------------------- engine, as pure steps ---------------------- *)
\* The engine state as a record of its four dicts; key_order is the order
\* in which the keys of sources were inserted, which is the order a Python
\* dict iterates in.  The RLock made by __init__ is never acquired by any
\* method, so it has no state here.
NewEngine ==
    [sources |-> EmptyDict, key_order |-> <<>>, context_maps |-> EmptyDict,
     miss_counts |-> EmptyDict, clusters |-> EmptyDict]

\* mutant of ensure_source: "self.clusters = {source: []}", the dict is
\* replaced where one key should be set
ensure_source_new_clusters(eng, source) ==
    IF source \notin DOMAIN eng.sources
    THEN [sources |-> dict_set(eng.sources, source, <<>>),
          key_order |-> Append(eng.key_order, source),
          context_maps |-> dict_set(eng.context_maps, source, EmptyDict),
          miss_counts |-> dict_set(eng.miss_counts, source, 0),
          clusters |-> dict_set(EmptyDict, source, <<>>)]
    ELSE eng

\* mutant of ensure_source: the source is initialised on every ingest
ensure_source_reset(eng, source) ==
    [sources |-> dict_set(eng.sources, source, <<>>),
     key_order |-> IF source \in DOMAIN eng.sources THEN eng.key_order
                   ELSE Append(eng.key_order, source),
     context_maps |-> dict_set(eng.context_maps, source, EmptyDict),
     miss_counts |-> dict_set(eng.miss_counts, source, 0),
     clusters |-> dict_set(eng.clusters, source, <<>>)]

\* ingest: the creation of an unseen source
ensure_source(eng, source) ==
    IF source \notin DOMAIN eng.sources
    THEN [sources |-> dict_set(eng.sources, source, <<>>),
          key_order |-> Append(eng.key_order, source),
          context_maps |-> dict_set(eng.context_maps, source, EmptyDict),
          miss_counts |-> dict_set(eng.miss_counts, source, 0),
          clusters |-> dict_set(eng.clusters, source, <<>>)]
    ELSE eng

\* mutant of index_token: the position is stored without the membership test
index_token_overwrite(context_map, tk, pos) == dict_set(context_map, tk, pos)

\* ingest: one pass of "if tk not in context_map: context_map[tk] = start + i"
index_token(context_map, tk, pos) ==
    IF tk \notin DOMAIN context_map THEN dict_set(context_map, tk, pos)
    ELSE context_map

\* mutant of index_tokens: the position stored is i, not start + i
RECURSIVE index_tokens_in_line(_, _, _, _)
index_tokens_in_line(context_map, tokens, start, i) ==
    IF i >= Len(tokens) THEN context_map
    ELSE index_tokens_in_line(index_token(context_map, tokens[i + 1], i),
                              tokens, start, i + 1)

\* ingest: "for i, tk in enumerate(tokens)", from the 0-based i on
RECURSIVE index_tokens(_, _, _, _)
index_tokens(context_map, tokens, start, i) ==
    IF i >= Len(tokens) THEN context_map
    ELSE index_tokens(index_token(context_map, tokens[i + 1], start + i),
                      tokens, start, i + 1)

\* mutant of append_cluster: the cluster is appended without the emptiness test
append_cluster_always(clusters, cluster) == Append(clusters, cluster)

\* ingest: "if cluster: clusters.append(cluster)"
append_cluster(clusters, cluster) ==
    IF cluster # <<>> THEN Append(clusters, cluster) ELSE clusters

\* mutant of ingest_line: the cluster keeps only the tokens that were no
\* index keys before the line
ingest_line_new_tokens(eng, mode, source, line) ==
    LET tokens == tokenize_syllabic(mode, line)
        start == Len(eng.sources[source])
        known == DOMAIN eng.context_maps[source]
    IN  [eng EXCEPT
            !.sources[source] = @ \o tokens,
            !.context_maps[source] = index_tokens(@, tokens, start, 0),
            !.clusters[source] =
                append_cluster(@, SelectSeq(tokens, LAMBDA tk : tk \notin known))]

\* mutant of ingest_line: the stream is assigned the line's tokens, not extended
ingest_line_assign(eng, mode, source, line) ==
    LET tokens == tokenize_syllabic(mode, line)
        start == Len(eng.sources[source])
    IN  [eng EXCEPT
            !.sources[source] = tokens,
            !.context_maps[source] = index_tokens(@, tokens, start, 0),
            !.clusters[source] = append_cluster(@, tokens)]

\* ingest: the body of "for line in lines"
ingest_line(eng, mode, source, line) ==
    LET tokens == tokenize_syllabic(mode, line)
        start == Len(eng.sources[source])
    IN  [eng EXCEPT
            !.sources[source] = @ \o tokens,
            !.context_maps[source] = index_tokens(@, tokens, start, 0),
            !.clusters[source] = append_cluster(@, tokens)]

RECURSIVE ingest_lines(_, _, _, _)
ingest_lines(eng, mode, source, lines) ==
    IF lines = <<>> THEN eng
    ELSE ingest_lines(ingest_line(eng, mode, source, Head(lines)),
                      mode, source, Tail(lines))

\* the engine after ingest(source, raw)
ingest_result(eng, mode, source, raw) ==
    ingest_lines(ensure_source(eng, source), mode, source,
                 split_lines(strip(raw)))

\* mutant of count_missing: the membership test is inverted
count_missing_inverted(full_text, context_map) ==
    Cardinality({i \in 1..Len(full_text) : full_text[i] \in DOMAIN context_map})

\* scan_complete: "sum(1 for tok in full_text if tok not in context_map)"
count_missing(full_text, context_map) ==
    Cardinality({i \in 1..Len(full_text) : full_text[i] \notin DOMAIN context_map})

\* mutant of scan_complete_result: the early return lacks
\* "or not self.sources[source]", so full_text[0] raises on an empty stream
scan_complete_result_unguarded(eng, source) ==
    IF source \notin DOMAIN eng.sources
    THEN [eng |-> eng, value |-> FALSE, raised |-> "None"]
    ELSE IF eng.sources[source] = <<>>
    THEN [eng |-> eng, value |-> FALSE, raised |-> "IndexError"]
    ELSE LET full_text == eng.sources[source]
             context_map == eng.context_maps[source]
             missing == count_missing(full_text, context_map)
         IN  [eng |-> [eng EXCEPT !.miss_counts = dict_set(@, source, missing)],
              value |-> /\ missing = 0
                        /\ dict_get(context_map, full_text[1]) = 0
                        /\ dict_get(context_map, full_text[Len(full_text)])
                              = Len(full_text) - 1,
              raised |-> "None"]

\* mutant of scan_complete_result: the test of the last token is left out
scan_complete_result_first_only(eng, source) ==
    IF source \notin DOMAIN eng.sources \/ eng.sources[source] = <<>>
    THEN [eng |-> eng, value |-> FALSE, raised |-> "None"]
    ELSE LET full_text == eng.sources[source]
             context_map == eng.context_maps[source]
             missing == count_missing(full_text, context_map)
         IN  [eng |-> [eng EXCEPT !.miss_counts = dict_set(@, source, missing)],
              value |-> /\ missing = 0
                        /\ dict_get(context_map, full_text[1]) = 0,
              raised |-> "None"]

\* scan_complete(source): the engine after the call, the value returned and
\* the exception raised ("None" when the call returns)
scan_complete_result(eng, source) ==
    IF source \notin DOMAIN eng.sources \/ eng.sources[source] = <<>>
    THEN [eng |-> eng, value |-> FALSE, raised |-> "None"]
    ELSE IF source \notin DOMAIN eng.context_maps
    THEN [eng |-> eng, value |-> "None", raised |-> "KeyError"]
    ELSE LET full_text == eng.sources[source]
             context_map == eng.context_maps[source]
             first == full_text[1]
             last == full_text[Len(full_text)]
             length == Len(full_text)
             missing == count_missing(full_text, context_map)
         IN  [eng |-> [eng EXCEPT !.miss_counts = dict_set(@, source, missing)],
              value |-> /\ missing = 0
                        /\ dict_get(context_map, first) = 0
                        /\ dict_get(context_map, last) = length - 1,
              raised |-> "None"]

\* mutant of verify_all_result: the iteration stops one key early
RECURSIVE verify_all_result_short(_, _, _)
verify_all_result_short(eng, pos, acc) ==
    IF pos + 1 >= Len(eng.key_order)
    THEN [eng |-> eng, value |-> acc, raised |-> "None"]
    ELSE LET source == eng.key_order[pos + 1]
             r == scan_complete_result(eng, source)
         IN  IF r.raised # "None"
             THEN [eng |-> r.eng, value |-> "None", raised |-> r.raised]
             ELSE verify_all_result_short(r.eng, pos + 1,
                                          dict_set(acc, source, r.value))

\* verify_all: the dict comprehension over sources.keys(), from the 0-based
\* position pos of the iteration on
RECURSIVE verify_all_result(_, _, _)
verify_all_result(eng, pos, acc) ==
    IF pos >= Len(eng.key_order)
    THEN [eng |-> eng, value |-> acc, raised |-> "None"]
    ELSE LET source == eng.key_order[pos + 1]
             r == scan_complete_result(eng, source)
         IN  IF r.raised # "None"
             THEN [eng |-> r.eng, value |-> "None", raised |-> r.raised]
             ELSE verify_all_result(r.eng, pos + 1, dict_set(acc, source, r.value))

\* sep.join(parts)
RECURSIVE join(_, _)
join(sep, parts) ==
    IF parts = <<>> THEN <<>>
    ELSE IF Len(parts) = 1 THEN parts[1]
    ELSE parts[1] \o sep \o join(sep, Tail(parts))

\* seq[:n]
take(seq, n) == SubSeq(seq, 1, IF Len(seq) < n THEN Len(seq) ELSE n)

\* mutant of dump_value: mid is full_text[(len(full_text) - 1) // 2]
dump_value_low_mid(eng, source) ==
    IF source \notin DOMAIN eng.sources \/ eng.sources[source] = <<>>
    THEN <<>>
    ELSE LET full_text == eng.sources[source]
             first == full_text[1]
             mid == full_text[((Len(full_text) - 1) \div 2) + 1]
             last == full_text[Len(full_text)]
         IN  join(<<" ">>, <<first, mid, last>>)

\* dump(source): the string returned
dump_value(eng, source) ==
    IF source \notin DOMAIN eng.sources \/ eng.sources[source] = <<>>
    THEN <<>>
    ELSE LET full_text == eng.sources[source]
             first == full_text[1]
             mid == full_text[(Len(full_text) \div 2) + 1]
             last == full_text[Len(full_text)]
         IN  join(<<" ">>, <<first, mid, last>>)

token_count_value(eng, source) ==
    Len(dict_get_default(eng.sources, source, <<>>))

RECURSIVE total_len(_)
total_len(tokens) ==
    IF tokens = <<>> THEN 0 ELSE Len(Head(tokens)) + total_len(Tail(tokens))

\* the float returned is kept as the exact quotient num / den; 0.0 is 0 / 1
avg_syllable_length_value(eng, source) ==
    LET tokens == dict_get_default(eng.sources, source, <<>>)
    IN  IF tokens = <<>> THEN [num |-> 0, den |-> 1]
        ELSE [num |-> total_len(tokens), den |-> Len(tokens)]

cluster_count_value(eng, source) ==
    Len(dict_get_default(eng.clusters, source, <<>>))

cluster_summary_value(eng, source) ==
    LET cs == take(dict_get_default(eng.clusters, source, <<>>), 5)
    IN  [i \in 1..Len(cs) |-> join(<<" ">>, take(cs[i], 3))]

(* ------------- the first definition of the class (lines 16-122) ------- *)
\* vowels = 'aeiouyAEIOUY'
AccVowels == {"a", "e", "i", "o", "u", "y", "A", "E", "I", "O", "U", "Y"}

\* syllabify of the first class: "for char in word" from position i on, with
\* syl the syllable accumulated so far, then the trailing "if syl:"
RECURSIVE syllabify_58_loop(_, _, _)
syllabify_58_loop(word, i, syl) ==
    IF i > Len(word) THEN (IF syl # <<>> THEN <<syl>> ELSE <<>>)
    ELSE LET grown == Append(syl, word[i])
         IN  IF word[i] \in AccVowels /\ grown # <<>>
             THEN <<grown>> \o syllabify_58_loop(word, i + 1, <<>>)
             ELSE syllabify_58_loop(word, i + 1, grown)

syllabify_58(word) ==
    IF word = <<>> THEN <<>> ELSE syllabify_58_loop(word, 1, <<>>)

\* tokenize_syllabic of the first class: "for w in words", where the
\* syllables of each word are joined back into one token
RECURSIVE joined_syllables_of(_)
joined_syllables_of(words) ==
    IF words = <<>> THEN <<>>
    ELSE LET m == match_base_punc(Head(words))
         IN  (IF m = <<>> THEN <<>>
              ELSE <<join(<<>>, syllabify_58(m[1])) \o m[2]>>)
             \o joined_syllables_of(Tail(words))

tokenize_syllabic_45(text) == joined_syllables_of(findall_word_punct(text, 1))

(* --------------------------- the log file ----------------------------- *)
\* The file system is a dict from path to content.  A path is the sequence
\* of the pieces it was formatted from, so that "{log_path}.{timestamp}.bak"
\* is log_path \o <<".", timestamp, ".bak">>; a content is the sequence of
\* the lines written, and the size of a file is counted in lines.
NoFiles == [p \in {} |-> <<>>]

\* os.path.isfile(path)
isfile(fs, path) == path \in DOMAIN fs

\* os.path.getsize(path)
getsize(fs, path) == Len(fs[path])

\* os.rename(src, dst): dst is replaced if it exists
rename(fs, src, dst) ==
    [p \in (DOMAIN fs \ {src}) \cup {dst} |-> IF p = dst THEN fs[src] ELSE fs[p]]

\* os.remove(path)
remove(fs, path) == [p \in DOMAIN fs \ {path} |-> fs[p]]

\* what gzip.open(path, 'wb') holds after shutil.copyfileobj: one compressed
\* member, not the lines themselves
gzip_copy(content) == <<[gzip |-> content]>>

\* mutant of rotate_log_file_result: ">=" for ">" in the size test
rotate_log_file_at_limit(fs, log_path, max_size, compress, timestamp) ==
    IF isfile(fs, log_path) /\ getsize(fs, log_path) >= max_size
    THEN LET rotated_path == log_path \o <<".", timestamp, ".bak">>
             renamed == rename(fs, log_path, rotated_path)
         IN  [fs |-> IF compress
                     THEN remove(dict_set(renamed, rotated_path \o <<".gz">>,
                                          gzip_copy(renamed[rotated_path])),
                                 rotated_path)
                     ELSE renamed,
              value |-> log_path]
    ELSE [fs |-> fs, value |-> log_path]

\* rotate_log_file(log_path, max_size, compress) when the clock reads
\* timestamp: the file system after the call and the value returned
rotate_log_file_result(fs, log_path, max_size, compress, timestamp) ==
    IF isfile(fs, log_path) /\ getsize(fs, log_path) > max_size
    THEN LET rotated_path == log_path \o <<".", timestamp, ".bak">>
             renamed == rename(fs, log_path, rotated_path)
         IN  [fs |-> IF compress
                     THEN remove(dict_set(renamed, rotated_path \o <<".gz">>,
                                          gzip_copy(renamed[rotated_path])),
                                 rotated_path)
                     ELSE renamed,
              value |-> log_path]
    ELSE [fs |-> fs, value |-> log_path]

\* main: "cluster_groups.setdefault(cnt, []).append(src)" for the sources
\* from the 0-based position pos of engine.sources on
RECURSIVE cluster_groups_from(_, _, _)
cluster_groups_from(eng, pos, groups) ==
    IF pos >= Len(eng.key_order) THEN groups
    ELSE LET src == eng.key_order[pos + 1]
             cnt == cluster_count_value(eng, src)
         IN  cluster_groups_from(
                 eng, pos + 1,
                 dict_set(groups, cnt,
                          Append(dict_get_default(groups, cnt, <<>>), src)))

\* main: cluster_groups, filled only under --clusters
cluster_groups_of(eng, a) ==
    IF a.clusters THEN cluster_groups_from(eng, 0, EmptyDict) ELSE EmptyDict

\* sorted(keys)
RECURSIVE sorted(_)
sorted(keys) ==
    IF keys = {} THEN <<>>
    ELSE LET least == CHOOSE x \in keys : \A y \in keys : x <= y
         IN  <<least>> \o sorted(keys \ {least})

\* sum(d.values())
RECURSIVE sum_values(_)
sum_values(d) ==
    IF DOMAIN d = {} THEN 0
    ELSE LET k == CHOOSE x \in DOMAIN d : TRUE
         IN  d[k] + sum_values([x \in DOMAIN d \ {k} |-> d[x]])

\* f"{avg_len:.2f}" as a number of hundredths: the quotient rounded to the
\* nearest hundredth, an exact tie (which a float holds exactly only for a
\* denominator that is a power of two) going to the even one
format_2f(q) ==
    LET n == q.num * 100
        floor == n \div q.den
        twice == 2 * (n % q.den)
    IN  IF twice > q.den THEN floor + 1
        ELSE IF twice < q.den THEN floor
        ELSE IF floor % 2 = 0 THEN floor ELSE floor + 1

\* write_log: the line written for src; a line is kept as the record of the
\* fields it is formatted from
result_line(eng, src, complete, a, timestamp) ==
    [line |-> "result",
     timestamp |-> timestamp,
     src |-> src,
     cluster_str |-> IF a.clusters
                     THEN <<cluster_count_value(eng, src),
                            cluster_summary_value(eng, src)>>
                     ELSE <<>>,
     status_str |-> IF complete THEN [ok |-> TRUE, missing |-> 0]
                    ELSE [ok |-> FALSE, missing |-> eng.miss_counts[src]],
     first_tok |-> eng.sources[src][1],
     last_tok |-> eng.sources[src][Len(eng.sources[src])],
     checksum |-> dump_value(eng, src),
     metrics_str |-> IF a.metrics
                     THEN <<token_count_value(eng, src),
                            format_2f(avg_syllable_length_value(eng, src))>>
                     ELSE <<>>]

\* write_log: "for src, complete in results.items()" from the 0-based
\* position pos on; results has the keys of engine.sources, in their order.
\* The lines written, and the exception that ended the loop if one did.
RECURSIVE result_lines(_, _, _, _, _)
result_lines(eng, results, pos, a, timestamp) ==
    IF pos >= Len(eng.key_order) THEN [lines |-> <<>>, raised |-> "None"]
    ELSE LET src == eng.key_order[pos + 1]
         IN  IF eng.sources[src] = <<>>
             THEN [lines |-> <<>>, raised |-> "IndexError"]
             ELSE LET rest == result_lines(eng, results, pos + 1, a, timestamp)
                  IN  [lines |-> <<result_line(eng, src, results[src], a, timestamp)>>
                                 \o rest.lines,
                       raised |-> rest.raised]

\* write_log: the lines written before the results
header_lines(eng, mode, results, cluster_groups) ==
    LET token_mode == IF mode THEN "Syllable-Level" ELSE "Word-Level"
        total_missing == sum_values(eng.miss_counts)
        total_failures == Cardinality({src \in DOMAIN results : ~results[src]})
        counts == sorted(DOMAIN cluster_groups)
    IN  <<[line |-> "mode", token_mode |-> token_mode],
          [line |-> "summary", failures |-> total_failures,
           missing |-> total_missing],
          [line |-> "groups"]>>
        \o [i \in 1..Len(counts) |->
               [line |-> "group", cnt |-> counts[i],
                srcs |-> cluster_groups[counts[i]]]]
        \o <<[line |-> "results"]>>

\* write_log(engine, results, cluster_groups, args) when the clock reads
\* timestamp: the file system after the call and the exception raised.  A
\* file opened by "with open(...)" keeps what was written before the
\* exception.  fail_log is <<>> when no --fail-log was given.
write_log_result(eng, mode, results, cluster_groups, a, fs, timestamp) ==
    IF a.fail_log = <<>> THEN [fs |-> fs, raised |-> "None"]
    ELSE LET rotated == rotate_log_file_result(fs, a.fail_log, a.max_log_size,
                                               ~a.no_compress, timestamp)
             active_log == rotated.value
             kept == IF a.append /\ isfile(rotated.fs, active_log)
                     THEN rotated.fs[active_log] ELSE <<>>
             written == result_lines(eng, results, 0, a, timestamp)
         IN  [fs |-> dict_set(rotated.fs, active_log,
                              kept \o header_lines(eng, mode, results, cluster_groups)
                                   \o written.lines),
              raised |-> written.raised]

(* --------------------- the engine used by one caller ------------------ *)
VARIABLES
    syllable_mode,  \* FullScanEngine.syllable_mode, fixed by the constructor
    sources,        \* FullScanEngine.sources: key -> token stream
    context_maps,   \* FullScanEngine.context_maps: key -> (token -> position)
    key_order,      \* the keys of sources in insertion order
    miss_counts,    \* FullScanEngine.miss_counts: key -> int
    clusters,       \* FullScanEngine.clusters: key -> list of token lists
    last_call,      \* the call made last: its name, argument and outcome
    ingested,       \* per key, what each ingest call so far was given
    pc,             \* per thread, the statement it is at
    frame,          \* per thread, the call it is in and its local variables
    text_in,        \* the text the tokenizer functions are applied to
    files,          \* the file system: path -> content
    args            \* the arguments of the module-level function called last

engine_vars == <<sources, key_order, context_maps, miss_counts, clusters>>
thread_vars == <<pc, frame>>
cli_vars == <<text_in, files, args>>
vars == <<syllable_mode, sources, key_order, context_maps, miss_counts, clusters,
          last_call, ingested, pc, frame, text_in, files, args>>

\* the four dicts of the engine as one record
engine ==
    [sources |-> sources, key_order |-> key_order, context_maps |-> context_maps,
     miss_counts |-> miss_counts, clusters |-> clusters]

set_engine(eng) ==
    /\ sources' = eng.sources
    /\ key_order' = eng.key_order
    /\ context_maps' = eng.context_maps
    /\ miss_counts' = eng.miss_counts
    /\ clusters' = eng.clusters

\* raised is the name of the exception the call ended with, "None" if it
\* returned
returned(op, source, value) ==
    last_call' = [op |-> op, source |-> source, value |-> value, raised |-> "None"]

\* the outcome r of a call that can raise
outcome(op, source, r) ==
    last_call' = [op |-> op, source |-> source, value |-> r.value, raised |-> r.raised]

\* the number of lines of raw that give at least one token (some = TRUE),
\* or that give none (some = FALSE)
count_lines(mode, raw, some) ==
    LET lines == split_lines(strip(raw))
    IN  Cardinality({i \in 1..Len(lines) :
                        (tokenize_syllabic(mode, lines[i]) # <<>>) = some})

\* what the ingest log keeps of one call: whether raw was the empty text,
\* the token count raw gives when ingested alone into a fresh engine, and
\* the numbers of its lines that give a token and that give none
log_entry(mode, source, raw) ==
    [nonempty |-> raw # <<>>,
     alone |-> token_count_value(ingest_result(NewEngine, mode, source, raw), source),
     lines |-> count_lines(mode, raw, TRUE),
     blank |-> count_lines(mode, raw, FALSE)]

RECURSIVE sum_of(_, _)
sum_of(log, field) ==
    IF log = <<>> THEN 0 ELSE Head(log)[field] + sum_of(Tail(log), field)

RECURSIVE calls_in(_)
calls_in(keys) ==
    IF keys = {} THEN 0
    ELSE LET k == CHOOSE x \in keys : TRUE
         IN  Len(ingested[k]) + calls_in(keys \ {k})

(* the threads of the concurrent callers; one caller uses none of them *)
Threads == {"t1", "t2"}

NoFrame == [op |-> "None"]

\* no module-level function has been called
NoArgs == [fn |-> "None"]

\* FullScanEngine(syllable_mode), and nothing called on it yet
constructed ==
    /\ syllable_mode \in BOOLEAN
    /\ sources = NewEngine.sources
    /\ key_order = NewEngine.key_order
    /\ context_maps = NewEngine.context_maps
    /\ miss_counts = NewEngine.miss_counts
    /\ clusters = NewEngine.clusters
    /\ last_call = [op |-> "__init__", source |-> "None", value |-> "None",
                    raised |-> "None"]
    /\ ingested = [k \in SourceKeys |-> <<>>]
    /\ pc = [t \in Threads |-> "idle"]
    /\ frame = [t \in Threads |-> NoFrame]

Init ==
    /\ constructed
    /\ text_in = <<>>
    /\ files = NoFiles
    /\ args = NoArgs

ingest(source, raw) ==
    /\ calls_in(SourceKeys) < MaxIngests
    /\ set_engine(ingest_result(engine, syllable_mode, source, raw))
    /\ returned("ingest", source, "None")
    /\ ingested' = [ingested EXCEPT
                       ![source] = Append(@, log_entry(syllable_mode, source, raw))]
    /\ UNCHANGED <<syllable_mode, thread_vars, cli_vars>>

scan_complete(source) ==
    LET r == scan_complete_result(engine, source)
    IN  /\ set_engine(r.eng)
        /\ outcome("scan_complete", source, r)
        /\ UNCHANGED <<syllable_mode, ingested, thread_vars, cli_vars>>

verify_all ==
    LET r == verify_all_result(engine, 0, EmptyDict)
    IN  /\ set_engine(r.eng)
        /\ outcome("verify_all", "None", r)
        /\ UNCHANGED <<syllable_mode, ingested, thread_vars, cli_vars>>

dump(source) ==
    /\ returned("dump", source, dump_value(engine, source))
    /\ UNCHANGED <<syllable_mode, engine_vars, ingested, thread_vars, cli_vars>>

token_count(source) ==
    /\ returned("token_count", source, token_count_value(engine, source))
    /\ UNCHANGED <<syllable_mode, engine_vars, ingested, thread_vars, cli_vars>>

\* mutant of avg_syllable_length: sources.setdefault(source, []) instead of
\* get
avg_syllable_length_setdefault(source) ==
    /\ returned("avg_syllable_length", source, avg_syllable_length_value(engine, source))
    /\ sources' = IF source \in DOMAIN sources THEN sources
                  ELSE dict_set(sources, source, <<>>)
    /\ key_order' = IF source \in DOMAIN sources THEN key_order
                    ELSE Append(key_order, source)
    /\ UNCHANGED <<syllable_mode, context_maps, miss_counts, clusters,
                   ingested, thread_vars, cli_vars>>

avg_syllable_length(source) ==
    /\ returned("avg_syllable_length", source, avg_syllable_length_value(engine, source))
    /\ UNCHANGED <<syllable_mode, engine_vars, ingested, thread_vars, cli_vars>>

\* mutant of cluster_count: clusters.setdefault(source, []) instead of get
cluster_count_setdefault(source) ==
    /\ returned("cluster_count", source, cluster_count_value(engine, source))
    /\ clusters' = IF source \in DOMAIN clusters THEN clusters
                   ELSE dict_set(clusters, source, <<>>)
    /\ UNCHANGED <<syllable_mode, sources, key_order, context_maps, miss_counts,
                   ingested, thread_vars, cli_vars>>

cluster_count(source) ==
    /\ returned("cluster_count", source, cluster_count_value(engine, source))
    /\ UNCHANGED <<syllable_mode, engine_vars, ingested, thread_vars, cli_vars>>

cluster_summary(source) ==
    /\ returned("cluster_summary", source, cluster_summary_value(engine, source))
    /\ UNCHANGED <<syllable_mode, engine_vars, ingested, thread_vars, cli_vars>>

Next ==
    \/ \E source \in SourceKeys, raw \in Texts : ingest(source, raw)
    \/ \E source \in SourceKeys : scan_complete(source)
    \/ verify_all
    \/ \E source \in SourceKeys : dump(source)
    \/ \E source \in SourceKeys : token_count(source)
    \/ \E source \in SourceKeys : avg_syllable_length(source)
    \/ \E source \in SourceKeys : cluster_count(source)
    \/ \E source \in SourceKeys : cluster_summary(source)

Spec == Init /\ [][Next]_vars

(* ------------------------- properties: one caller --------------------- *)
\* the 0-based positions at which token t occurs in stream
positions_of(stream, t) == {i - 1 : i \in {j \in 1..Len(stream) : stream[j] = t}}

min_of(S) == CHOOSE x \in S : \A y \in S : x <= y

tokens_of(stream) == {stream[i] : i \in 1..Len(stream)}

is_prefix(a, b) == Len(a) <= Len(b) /\ SubSeq(b, 1, Len(a)) = a

\* a source ingested exactly once, with a raw text that is not the empty text
fresh_once(s) == Len(ingested[s]) = 1 /\ ingested[s][1].nonempty

\* C1: after one ingest of a non-empty raw text into a fresh source,
\* scan_complete(source) returns true and the stored miss count is 0;
\* equivalently the index maps the first token to 0 and the last token to
\* len(tokens) - 1.
C1_CompleteAfterFreshIngest ==
    \A s \in SourceKeys :
        fresh_once(s) =>
            /\ sources[s] # <<>> =>
                  /\ dict_get(context_maps[s], sources[s][1]) = 0
                  /\ dict_get(context_maps[s], sources[s][Len(sources[s])])
                        = Len(sources[s]) - 1
            /\ (last_call.op = "scan_complete" /\ last_call.source = s) =>
                  /\ last_call.value = TRUE
                  /\ miss_counts[s] = 0

\* C4: for every source and every token t of its stream, index[t] is the
\* smallest position at which t occurs, and the index has no other key.
C4_IndexIsFirstOccurrence ==
    \A s \in DOMAIN sources :
        /\ DOMAIN context_maps[s] = tokens_of(sources[s])
        /\ \A t \in tokens_of(sources[s]) :
              context_maps[s][t] = min_of(positions_of(sources[s], t))

C4_Witness ==
    /\ last_call.op = "ingest"
    /\ \E s \in DOMAIN sources : \E t \in tokens_of(sources[s]) :
          /\ Cardinality(positions_of(sources[s], t)) >= 2
          /\ context_maps[s][t] > 0

\* C5: every token of every stream is a key of that source's index, and the
\* miss count stored for every source is 0.
C5_MissCountZero ==
    \A s \in DOMAIN sources :
        /\ \A i \in 1..Len(sources[s]) : sources[s][i] \in DOMAIN context_maps[s]
        /\ miss_counts[s] = 0

C5_Witness ==
    /\ last_call.op \in {"scan_complete", "verify_all"}
    /\ \E s \in DOMAIN sources :
          /\ Len(ingested[s]) = 2
          /\ Len(sources[s]) >= 3
          /\ miss_counts[s] = 0

\* C6: the token count of a source after ingest(A) then ingest(B) is the
\* count A gives alone in a fresh source plus the count B gives alone.
C6_TokenCountAdditive ==
    \A s \in SourceKeys :
        token_count_value(engine, s) = sum_of(ingested[s], "alone")

C6_Witness ==
    /\ last_call.op = "token_count"
    /\ Len(ingested[last_call.source]) = 2
    /\ ingested[last_call.source][1].alone >= 1
    /\ ingested[last_call.source][2].alone >= 2
    /\ last_call.value >= 3

\* C7: cluster_count(source) is the number of ingested lines, over all
\* ingest calls, that gave at least one token; a line that gives no token
\* adds no cluster.
C7_ClusterPerTokenLine ==
    \A s \in SourceKeys :
        cluster_count_value(engine, s) = sum_of(ingested[s], "lines")

C7_Witness ==
    /\ last_call.op = "cluster_count"
    /\ Len(ingested[last_call.source]) = 2
    /\ sum_of(ingested[last_call.source], "blank") >= 1
    /\ last_call.value >= 2

\* the queries that take a source key, and what each returns by default
KeyQueries ==
    {"scan_complete", "dump", "token_count", "avg_syllable_length",
     "cluster_count", "cluster_summary"}

default_of(op) ==
    CASE op = "scan_complete" -> FALSE
      [] op = "dump" -> <<>>
      [] op = "token_count" -> 0
      [] op = "avg_syllable_length" -> [num |-> 0, den |-> 1]
      [] op = "cluster_count" -> 0
      [] op = "cluster_summary" -> <<>>

\* the call made by this step is a query of a key never ingested
unknown_query_step ==
    /\ last_call'.op \in KeyQueries
    /\ ingested[last_call'.source] = <<>>

\* C8: a query of a source key that was never ingested returns its default
\* (false, "", 0, 0.0, 0, []), does not raise, does not create the source
\* and leaves the engine state as it was.
C8_UnknownSourceDefaults ==
    [][unknown_query_step =>
          /\ last_call'.raised = "None"
          /\ last_call'.value = default_of(last_call'.op)
          /\ last_call'.source \notin DOMAIN sources'
          /\ UNCHANGED engine_vars]_vars

C8_Witness ==
    /\ last_call.op = "cluster_summary"
    /\ ingested[last_call.source] = <<>>
    /\ DOMAIN sources # {}
    /\ last_call.source \notin DOMAIN sources

\* C9: every (token, position) entry of a source's index is still there,
\* with the same position, after any ingest call; entries are only added
\* for tokens that were no keys, and their number never decreases.
C9_IndexEntriesKept ==
    [][\A s \in DOMAIN context_maps :
          /\ s \in DOMAIN context_maps'
          /\ \A t \in DOMAIN context_maps[s] :
                /\ t \in DOMAIN context_maps'[s]
                /\ context_maps'[s][t] = context_maps[s][t]
          /\ Cardinality(DOMAIN context_maps'[s]) >= Cardinality(DOMAIN context_maps[s])]_vars

C9_Witness ==
    /\ last_call.op = "ingest"
    /\ Len(ingested[last_call.source]) = 2
    /\ ingested[last_call.source][1].alone >= 1
    /\ Cardinality(DOMAIN context_maps[last_call.source]) >= 2
    /\ \E t \in DOMAIN context_maps[last_call.source] :
          Cardinality(positions_of(sources[last_call.source], t)) >= 2

\* C10: every source known before an operation is known after it, with its
\* earlier token stream a prefix of its later one; a source comes into
\* existence only through its first ingest call.
C10_StreamsAppendOnly ==
    [][/\ \A s \in DOMAIN sources :
             /\ s \in DOMAIN sources'
             /\ is_prefix(sources[s], sources'[s])
       /\ \A s \in DOMAIN sources' \ DOMAIN sources :
             /\ last_call'.op = "ingest"
             /\ last_call'.source = s
             /\ ingested[s] = <<>>]_vars

C10_Witness ==
    /\ last_call.op = "ingest"
    /\ Len(ingested[last_call.source]) = 2
    /\ ingested[last_call.source][1].alone >= 1
    /\ ingested[last_call.source][2].alone >= 1
    /\ Cardinality(DOMAIN sources) = 1

\* C11: verify_all returns a mapping whose keys are exactly the sources
\* ingested so far and whose value for each source is what
\* scan_complete(source) returns in that state; afterwards the miss count
\* stored for each source is the number of positions of its stream whose
\* token is no index key.
C11_VerifyAllScansEachSource ==
    last_call.op = "verify_all" =>
        /\ last_call.raised = "None"
        /\ DOMAIN last_call.value = DOMAIN sources
        /\ DOMAIN sources = {s \in SourceKeys : ingested[s] # <<>>}
        /\ \A s \in DOMAIN sources :
              /\ last_call.value[s] = scan_complete_result(engine, s).value
              /\ miss_counts[s] = count_missing(sources[s], context_maps[s])

C11_Witness ==
    /\ last_call.op = "verify_all"
    /\ DOMAIN last_call.value = SourceKeys
    /\ \E s \in SourceKeys : last_call.value[s]
    /\ \E s \in SourceKeys : ~last_call.value[s]

\* C12: for a source with n >= 1 tokens dump(source) returns tokens[0],
\* tokens[n div 2] and tokens[n - 1] joined by single spaces, three entries
\* for every n; for a known source with no token it returns "".
C12_DumpFirstMidLast ==
    (last_call.op = "dump" /\ last_call.source \in DOMAIN sources) =>
        LET tokens == sources[last_call.source]
            n == Len(tokens)
        IN  IF n = 0 THEN last_call.value = <<>>
            ELSE last_call.value =
                     tokens[1] \o <<" ">> \o tokens[(n \div 2) + 1]
                               \o <<" ">> \o tokens[n]

C12_Witness ==
    /\ last_call.op = "dump"
    /\ last_call.source \in DOMAIN sources
    /\ Len(sources[last_call.source]) = 2
    /\ sources[last_call.source][1] # sources[last_call.source][2]
    /\ \E s \in DOMAIN sources : sources[s] = <<>>

\* C17: no call of ingest, scan_complete, verify_all, dump, token_count,
\* avg_syllable_length, cluster_count or cluster_summary by the one caller
\* raises, whatever the source key and the text, also when a source was
\* ingested with a text that gives no token.
C17_NoMethodRaises == last_call.raised = "None"

C17_Witness ==
    /\ last_call.op = "scan_complete"
    /\ last_call.source \in DOMAIN sources
    /\ sources[last_call.source] = <<>>
    /\ ingested[last_call.source][1].nonempty
    /\ last_call.value = FALSE

\* the value of the last token of stream occurs at no earlier position
last_is_new(stream) ==
    positions_of(stream, stream[Len(stream)]) = {Len(stream) - 1}

\* what C19 says scan_complete(s) returns
complete_when_last_is_new(s) ==
    /\ s \in DOMAIN sources
    /\ sources[s] # <<>>
    /\ last_is_new(sources[s])

\* C19: scan_complete(source) returns true exactly when the source has at
\* least one token and the value of its last token occurs at no earlier
\* position; the index maps the first token of every non-empty source to 0.
C19_CompleteIffLastIsNew ==
    \A s \in SourceKeys :
        /\ scan_complete_result(engine, s).value = complete_when_last_is_new(s)
        /\ (last_call.op = "scan_complete" /\ last_call.source = s) =>
               last_call.value = complete_when_last_is_new(s)
        /\ (s \in DOMAIN sources /\ sources[s] # <<>>) =>
               dict_get(context_maps[s], sources[s][1]) = 0

\* true, then false, then true again: the first ingest gave one token (so
\* the source was complete), the second made the last token a repeat, and
\* some third ingest makes the source complete again
C19_Witness ==
    /\ last_call.op = "scan_complete"
    /\ last_call.value = FALSE
    /\ Len(ingested[last_call.source]) = 2
    /\ ingested[last_call.source][1].alone = 1
    /\ ingested[last_call.source][2].alone = 1
    /\ \E raw \in Texts :
          scan_complete_result(
              ingest_result(engine, syllable_mode, last_call.source, raw),
              last_call.source).value

\* the lists of seqs, one after the other
RECURSIVE concat(_)
concat(seqs) == IF seqs = <<>> THEN <<>> ELSE Head(seqs) \o concat(Tail(seqs))

\* C20: for every source the clusters, concatenated in order, are exactly
\* the token stream, and no cluster is empty.
C20_ClustersPartitionStream ==
    \A s \in DOMAIN sources :
        /\ concat(clusters[s]) = sources[s]
        /\ \A i \in 1..Len(clusters[s]) : clusters[s][i] # <<>>

C20_Witness ==
    /\ last_call.op = "ingest"
    /\ Len(ingested[last_call.source]) = 2
    /\ sum_of(ingested[last_call.source], "blank") >= 1
    /\ Len(clusters[last_call.source]) >= 2
    /\ Len(sources[last_call.source]) > Len(clusters[last_call.source])

\* key k is in dict after exactly when it is in dict before, with the same
\* value
same_entry(before, after, k) ==
    /\ (k \in DOMAIN after) = (k \in DOMAIN before)
    /\ k \in DOMAIN before => after[k] = before[k]

\* C21: ingest(s, raw) changes the state of source s only: every other
\* source key has the same token stream, index, clusters and miss count
\* after the call as before, and no other source is created.
C21_IngestTouchesOneSource ==
    [][last_call'.op = "ingest" =>
          /\ DOMAIN sources' \subseteq DOMAIN sources \cup {last_call'.source}
          /\ \A k \in SourceKeys \ {last_call'.source} :
                /\ same_entry(sources, sources', k)
                /\ same_entry(context_maps, context_maps', k)
                /\ same_entry(clusters, clusters', k)
                /\ same_entry(miss_counts, miss_counts', k)]_engine_vars

C21_Witness ==
    /\ last_call.op = "ingest"
    /\ DOMAIN sources = SourceKeys
    /\ Len(ingested[last_call.source]) = 1
    /\ \A s \in SourceKeys :
          /\ Len(sources[s]) >= 2
          /\ clusters[s] # <<>>

\* the queries of the engine
Queries == KeyQueries \cup {"verify_all"}

\* the sources whose miss count the query made by this step may write
scanned_by_step ==
    {s \in DOMAIN sources :
        /\ sources[s] # <<>>
        /\ \/ last_call'.op = "verify_all"
           \/ last_call'.op = "scan_complete" /\ last_call'.source = s}

\* C22: a query changes no token stream, index or cluster and not the set
\* of known sources; all it writes is the miss count of a known non-empty
\* source given to scan_complete; a verify_all right after a verify_all
\* returns the same mapping and leaves the same state.
C22_QueriesOnlyWriteMissCounts ==
    [][last_call'.op \in Queries =>
          /\ sources' = sources
          /\ key_order' = key_order
          /\ context_maps' = context_maps
          /\ clusters' = clusters
          /\ \A k \in SourceKeys \ scanned_by_step :
                same_entry(miss_counts, miss_counts', k)
          /\ (last_call.op = "verify_all" /\ last_call'.op = "verify_all") =>
                /\ last_call'.value = last_call.value
                /\ miss_counts' = miss_counts]_<<engine_vars, last_call>>

C22_Witness ==
    /\ last_call.op = "scan_complete"
    /\ last_call.value = TRUE
    /\ DOMAIN sources = SourceKeys
    /\ Len(sources[last_call.source]) >= 2
    /\ miss_counts[last_call.source] = 0
    /\ \E s \in SourceKeys : sources[s] = <<>>

(* ----------------------- concurrent callers --------------------------- *)
(* Each thread of Threads makes one call on the shared engine.  No method  *)
(* acquires self.lock, so the threads interleave between the statements of *)
(* ingest and verify_all; pc[t] names the source line thread t is about to *)
(* run.  Lines 297-308 of scan_complete run as one step.                   *)

\* longest raw text a concurrent caller hands to ingest
ConcMaxLen == 1

ConcTexts == UNION {TextsOfLen(n) : n \in 0..ConcMaxLen}

caller_vars == <<syllable_mode, last_call, ingested, cli_vars>>

new_frame(op, source, raw) ==
    [op |-> op, source |-> source, raw |-> raw,
     lines |-> <<>>, tokens |-> <<>>, start |-> 0, i |-> 0, cluster |-> <<>>,
     di_used |-> 0, pos |-> 0, acc |-> EmptyDict,
     value |-> "None", raised |-> "None"]

goto(t, label) == pc' = [pc EXCEPT ![t] = label]

\* the call of thread t returns value
thread_return(t, value) ==
    /\ goto(t, "done")
    /\ frame' = [frame EXCEPT ![t].value = value]

\* the call of thread t ends with an exception
thread_raise(t, exception) ==
    /\ goto(t, "done")
    /\ frame' = [frame EXCEPT ![t].raised = exception]

\* scan_complete returns value: to the caller, or into verify_all's dict
scan_return(t, value) ==
    IF frame[t].op = "verify_all"
    THEN /\ goto(t, "verify_311")
         /\ frame' = [frame EXCEPT ![t].acc = dict_set(@, frame[t].source, value)]
    ELSE thread_return(t, value)

call_ingest(t, source, raw) ==
    /\ pc[t] = "idle"
    /\ goto(t, "ingest_253")
    /\ frame' = [frame EXCEPT ![t] =
                    [new_frame("ingest", source, raw) EXCEPT
                        !.lines = split_lines(strip(raw))]]
    /\ UNCHANGED <<engine_vars, caller_vars>>

\* if source not in self.sources:
ingest_253(t) ==
    /\ pc[t] = "ingest_253"
    /\ goto(t, IF frame[t].source \notin DOMAIN sources
               THEN "ingest_254" ELSE "ingest_260")
    /\ UNCHANGED <<frame, engine_vars, caller_vars>>

\* self.sources[source] = []
ingest_254(t) ==
    /\ pc[t] = "ingest_254"
    /\ sources' = dict_set(sources, frame[t].source, <<>>)
    /\ key_order' = IF frame[t].source \in DOMAIN sources THEN key_order
                    ELSE Append(key_order, frame[t].source)
    /\ goto(t, "ingest_255")
    /\ UNCHANGED <<frame, context_maps, miss_counts, clusters, caller_vars>>

\* self.context_maps[source] = {}
ingest_255(t) ==
    /\ pc[t] = "ingest_255"
    /\ context_maps' = dict_set(context_maps, frame[t].source, EmptyDict)
    /\ goto(t, "ingest_256")
    /\ UNCHANGED <<frame, sources, key_order, miss_counts, clusters, caller_vars>>

\* self.miss_counts[source] = 0
ingest_256(t) ==
    /\ pc[t] = "ingest_256"
    /\ miss_counts' = dict_set(miss_counts, frame[t].source, 0)
    /\ goto(t, "ingest_257")
    /\ UNCHANGED <<frame, sources, key_order, context_maps, clusters, caller_vars>>

\* self.clusters[source] = []
ingest_257(t) ==
    /\ pc[t] = "ingest_257"
    /\ clusters' = dict_set(clusters, frame[t].source, <<>>)
    /\ goto(t, "ingest_260")
    /\ UNCHANGED <<frame, sources, key_order, context_maps, miss_counts, caller_vars>>

\* for line in lines: tokens = ...; start = len(self.sources[source])
ingest_260(t) ==
    /\ pc[t] = "ingest_260"
    /\ IF frame[t].lines = <<>>
       THEN thread_return(t, "None")
       ELSE /\ goto(t, "ingest_263")
            /\ frame' = [frame EXCEPT
                            ![t].tokens = tokenize_syllabic(syllable_mode,
                                                            Head(frame[t].lines)),
                            ![t].start = Len(sources[frame[t].source])]
    /\ UNCHANGED <<engine_vars, caller_vars>>

\* self.sources[source].extend(tokens); cluster = []
ingest_263(t) ==
    /\ pc[t] = "ingest_263"
    /\ sources' = [sources EXCEPT ![frame[t].source] = @ \o frame[t].tokens]
    /\ frame' = [frame EXCEPT ![t].cluster = <<>>, ![t].i = 0]
    /\ goto(t, "ingest_265")
    /\ UNCHANGED <<key_order, context_maps, miss_counts, clusters, caller_vars>>

\* for i, tk in enumerate(tokens): cluster.append(tk);
\* if tk not in self.context_maps[source]:
ingest_265(t) ==
    /\ pc[t] = "ingest_265"
    /\ IF frame[t].i >= Len(frame[t].tokens)
       THEN /\ goto(t, "ingest_269")
            /\ UNCHANGED frame
       ELSE IF frame[t].source \notin DOMAIN context_maps
       THEN thread_raise(t, "KeyError")
       ELSE LET tk == frame[t].tokens[frame[t].i + 1]
            IN  IF tk \notin DOMAIN context_maps[frame[t].source]
                THEN /\ goto(t, "ingest_268")
                     /\ frame' = [frame EXCEPT ![t].cluster = Append(@, tk)]
                ELSE /\ goto(t, "ingest_265")
                     /\ frame' = [frame EXCEPT ![t].cluster = Append(@, tk),
                                               ![t].i = @ + 1]
    /\ UNCHANGED <<engine_vars, caller_vars>>

\* self.context_maps[source][tk] = start + i
ingest_268(t) ==
    /\ pc[t] = "ingest_268"
    /\ context_maps' = [context_maps EXCEPT
                           ![frame[t].source] =
                               dict_set(@, frame[t].tokens[frame[t].i + 1],
                                        frame[t].start + frame[t].i)]
    /\ frame' = [frame EXCEPT ![t].i = @ + 1]
    /\ goto(t, "ingest_265")
    /\ UNCHANGED <<sources, key_order, miss_counts, clusters, caller_vars>>

\* if cluster: self.clusters[source].append(cluster)
ingest_269(t) ==
    /\ pc[t] = "ingest_269"
    /\ IF frame[t].cluster = <<>>
       THEN /\ goto(t, "ingest_260")
            /\ frame' = [frame EXCEPT ![t].lines = Tail(@)]
            /\ UNCHANGED clusters
       ELSE IF frame[t].source \notin DOMAIN clusters
       THEN /\ thread_raise(t, "KeyError")
            /\ UNCHANGED clusters
       ELSE /\ clusters' = [clusters EXCEPT
                               ![frame[t].source] = Append(@, frame[t].cluster)]
            /\ goto(t, "ingest_260")
            /\ frame' = [frame EXCEPT ![t].lines = Tail(@)]
    /\ UNCHANGED <<sources, key_order, context_maps, miss_counts, caller_vars>>

call_scan_complete(t, source) ==
    /\ pc[t] = "idle"
    /\ goto(t, "scan_295")
    /\ frame' = [frame EXCEPT ![t] = new_frame("scan_complete", source, <<>>)]
    /\ UNCHANGED <<engine_vars, caller_vars>>

\* if source not in self.sources or not self.sources[source]: return False
scan_295(t) ==
    /\ pc[t] = "scan_295"
    /\ IF \/ frame[t].source \notin DOMAIN sources
          \/ sources[frame[t].source] = <<>>
       THEN scan_return(t, FALSE)
       ELSE /\ goto(t, "scan_297")
            /\ UNCHANGED frame
    /\ UNCHANGED <<engine_vars, caller_vars>>

\* lines 297-308: full_text[0] raises IndexError on a list emptied meanwhile
scan_297(t) ==
    /\ pc[t] = "scan_297"
    /\ IF sources[frame[t].source] = <<>>
       THEN /\ thread_raise(t, IF frame[t].source \in DOMAIN context_maps
                               THEN "IndexError" ELSE "KeyError")
            /\ UNCHANGED engine_vars
       ELSE LET r == scan_complete_result(engine, frame[t].source)
            IN  IF r.raised # "None"
                THEN /\ thread_raise(t, r.raised)
                     /\ UNCHANGED engine_vars
                ELSE /\ set_engine(r.eng)
                     /\ scan_return(t, r.value)
    /\ UNCHANGED caller_vars

\* the dict comprehension starts: iter(self.sources.keys())
call_verify_all(t) ==
    /\ pc[t] = "idle"
    /\ goto(t, "verify_311")
    /\ frame' = [frame EXCEPT ![t] =
                    [new_frame("verify_all", "None", <<>>) EXCEPT
                        !.di_used = Len(key_order)]]
    /\ UNCHANGED <<engine_vars, caller_vars>>

\* next() of the key iterator: RuntimeError "dictionary changed size during
\* iteration", the end of the comprehension, or the next scan_complete call
verify_311(t) ==
    /\ pc[t] = "verify_311"
    /\ IF Len(key_order) # frame[t].di_used
       THEN thread_raise(t, "RuntimeError")
       ELSE IF frame[t].pos >= Len(key_order)
       THEN thread_return(t, frame[t].acc)
       ELSE /\ goto(t, "scan_295")
            /\ frame' = [frame EXCEPT ![t].source = key_order[frame[t].pos + 1],
                                      ![t].pos = @ + 1]
    /\ UNCHANGED <<engine_vars, caller_vars>>

ConcNext ==
    \E t \in Threads :
        \/ \E source \in SourceKeys, raw \in ConcTexts : call_ingest(t, source, raw)
        \/ ingest_253(t)
        \/ ingest_254(t)
        \/ ingest_255(t)
        \/ ingest_256(t)
        \/ ingest_257(t)
        \/ ingest_260(t)
        \/ ingest_263(t)
        \/ ingest_265(t)
        \/ ingest_268(t)
        \/ ingest_269(t)
        \/ \E source \in SourceKeys : call_scan_complete(t, source)
        \/ scan_295(t)
        \/ scan_297(t)
        \/ call_verify_all(t)
        \/ verify_311(t)

ConcSpec == Init /\ [][ConcNext]_vars

(* --------------------- properties: concurrent callers ------------------ *)
\* the engine after the ingest call thread u makes, run alone on eng
after_ingest_of(eng, u) ==
    ingest_result(eng, syllable_mode, frame[u].source, frame[u].raw)

\* the engines some sequential order of the ingest calls of all threads of
\* U gives, from eng
RECURSIVE sequential_outcomes(_, _)
sequential_outcomes(eng, U) ==
    IF U = {} THEN {eng}
    ELSE UNION {sequential_outcomes(after_ingest_of(eng, u), U \ {u}) : u \in U}

\* the engines a call can see when it is serialized with the ingest calls of
\* the threads of U: those after any number of them, in any order
RECURSIVE serialized_views(_, _)
serialized_views(eng, U) ==
    {eng} \cup UNION {serialized_views(after_ingest_of(eng, u), U \ {u}) :
                        u \in {x \in U : frame[x].op = "ingest"}}

streams_of(eng) ==
    [sources |-> eng.sources, context_maps |-> eng.context_maps,
     clusters |-> eng.clusters]

all_ingests_done ==
    \A t \in Threads : pc[t] = "done" /\ frame[t].op = "ingest"

\* C2: when concurrent ingest calls have all ended, none has raised and the
\* tokens, index and clusters of every source are those of some sequential
\* order of the same calls (no token lost, every index entry the first
\* occurrence of its token).
C2_IngestsLinearizable ==
    all_ingests_done =>
        /\ \A t \in Threads : frame[t].raised = "None"
        /\ streams_of(engine) \in
              {streams_of(eng) : eng \in sequential_outcomes(NewEngine, Threads)}

\* the values a scan_complete or verify_all call of thread t can return when
\* it is serialized with the ingest calls of the other threads
serialized_values(t) ==
    {IF frame[t].op = "scan_complete"
        THEN scan_complete_result(eng, frame[t].source).value
        ELSE verify_all_result(eng, 0, EmptyDict).value :
     eng \in serialized_views(NewEngine, Threads \ {t})}

\* C3: a scan_complete or verify_all call running concurrently with ingest
\* calls never records a nonzero miss count, never raises, and returns a
\* value some sequential order of the calls gives.
C3_ScansSerialized ==
    /\ \A s \in DOMAIN miss_counts : miss_counts[s] = 0
    /\ \A t \in Threads :
          (pc[t] = "done" /\ frame[t].op \in {"scan_complete", "verify_all"}) =>
              /\ frame[t].raised = "None"
              /\ frame[t].value \in serialized_values(t)

(* ------------- the tokenizer functions, applied to one text ----------- *)
\* longest text the tokenizer functions are applied to
MaxTextLen == 3

\* the characters of these texts: vowels of both syllabifiers, one of them
\* in upper case, the letter only the first syllabifier takes for a vowel,
\* a consonant, the apostrophe, two punctuation marks and the blank
TextAlphabet == {"a", "A", "y", "b", "'", ".", ",", " "}

RECURSIVE StringsOfLen(_)
StringsOfLen(n) ==
    IF n = 0 THEN {<<>>}
    ELSE {Append(t, c) : t \in StringsOfLen(n - 1), c \in TextAlphabet}

strength == <<"s", "t", "r", "e", "n", "g", "t", "h">>

TokenizerTexts == UNION {StringsOfLen(n) : n \in 0..MaxTextLen} \cup {strength}

\* what re.findall(r"[\w']+", text) can hand to syllabify, or ""
is_word(text) == \A i \in 1..Len(text) : text[i] \in WordChars

TokenizerInit ==
    /\ constructed
    /\ text_in \in TokenizerTexts
    /\ files = NoFiles
    /\ args = NoArgs

\* syllabify(text_in) of the second class
call_syllabify ==
    /\ is_word(text_in)
    /\ returned("syllabify", "None", syllabify(text_in))
    /\ UNCHANGED <<syllable_mode, engine_vars, ingested, thread_vars, cli_vars>>

\* syllabify(text_in) of the first class
call_syllabify_58 ==
    /\ is_word(text_in)
    /\ returned("syllabify_58", "None", syllabify_58(text_in))
    /\ UNCHANGED <<syllable_mode, engine_vars, ingested, thread_vars, cli_vars>>

\* tokenize_syllabic(text_in) of the second class
call_tokenize_syllabic ==
    /\ returned("tokenize_syllabic", "None",
                tokenize_syllabic(syllable_mode, text_in))
    /\ UNCHANGED <<syllable_mode, engine_vars, ingested, thread_vars, cli_vars>>

\* tokenize_syllabic(text_in) of the first class
call_tokenize_syllabic_45 ==
    /\ returned("tokenize_syllabic_45", "None", tokenize_syllabic_45(text_in))
    /\ UNCHANGED <<syllable_mode, engine_vars, ingested, thread_vars, cli_vars>>

TokenizerNext ==
    \/ call_syllabify
    \/ call_syllabify_58
    \/ call_tokenize_syllabic
    \/ call_tokenize_syllabic_45
    \/ \E source \in SourceKeys : ingest(source, text_in)
    \/ \E source \in SourceKeys : token_count(source)

TokenizerSpec == TokenizerInit /\ [][TokenizerNext]_vars

(* ------------------- properties: the tokenizer functions -------------- *)
has_vowel(word) == \E i \in 1..Len(word) : word[i] \in AccVowels

\* C13: for each of the two syllabify functions and every word, the
\* syllables returned, concatenated in order, are the word; a non-empty
\* word without a vowel gives one syllable, the word itself.
C13_SyllablesRoundTrip ==
    last_call.op \in {"syllabify", "syllabify_58"} =>
        /\ concat(last_call.value) = text_in
        /\ (text_in # <<>> /\ ~has_vowel(text_in)) => last_call.value = <<text_in>>

\* the accumulate-on-vowel policy, stated by where it cuts: a syllable ends
\* at each vowel (a, e, i, o, u, y), and what follows the last vowel is the
\* final syllable
policy_syllables(word) ==
    LET ends == sorted({i \in 1..Len(word) : word[i] \in AccVowels \/ i = Len(word)})
    IN  [k \in 1..Len(ends) |->
            SubSeq(word, IF k = 1 THEN 1 ELSE ends[k - 1] + 1, ends[k])]

RECURSIVE policy_tokens(_)
policy_tokens(words) ==
    IF words = <<>> THEN <<>>
    ELSE policy_syllables(Head(words)) \o policy_tokens(Tail(words))

RECURSIVE repeated(_, _)
repeated(seq, n) == IF n = 0 THEN <<>> ELSE seq \o repeated(seq, n - 1)

\* C14: in syllable mode the tokens of a line are the syllables of its
\* words under the accumulate-on-vowel policy, one token per syllable, in
\* order; ingest appends them, and token_count is their number.
C14_SyllableModeTokens ==
    LET expected == policy_tokens(findall_word(text_in, 1))
    IN  /\ (syllable_mode /\ last_call.op = "tokenize_syllabic") =>
               last_call.value = expected
        /\ syllable_mode =>
               \A s \in DOMAIN sources :
                   /\ sources[s] = repeated(expected, Len(ingested[s]))
                   /\ (last_call.op = "token_count" /\ last_call.source = s) =>
                          last_call.value = Len(expected) * Len(ingested[s])

\* the positions at which a maximal run of word characters of line starts
word_starts(line) ==
    sorted({i \in 1..Len(line) :
               line[i] \in WordChars /\ (i = 1 \/ line[i - 1] \notin WordChars)})

\* the maximal run of word characters of line from position i, followed by
\* the whole run of punctuation marks after it
word_with_punct(line, i) ==
    LET ends == {e \in i..Len(line) :
                    /\ e = Len(line) \/ line[e + 1] \notin PunctChars
                    /\ \E m \in i..e :
                          /\ \A k \in i..m : line[k] \in WordChars
                          /\ m = Len(line) \/ line[m + 1] \notin WordChars
                          /\ \A k \in (m + 1)..e : line[k] \in PunctChars}
    IN  SubSeq(line, i, CHOOSE e \in ends : TRUE)

\* C15: in word mode the tokens of a line are, in line order, its maximal
\* runs of word characters and apostrophes, each with the whole run of
\* punctuation marks that follows it; none is empty or holds whitespace,
\* and a line without a word character gives no token.
C15_WordModeTokens ==
    (last_call.op = "tokenize_syllabic" /\ ~syllable_mode) =>
        LET starts == word_starts(text_in)
            tokens == last_call.value
        IN  /\ Len(tokens) = Len(starts)
            /\ \A k \in 1..Len(tokens) :
                  /\ tokens[k] = word_with_punct(text_in, starts[k])
                  /\ tokens[k] # <<>>
                  /\ \A i \in 1..Len(tokens[k]) : tokens[k][i] \notin Whitespace
            /\ (\A i \in 1..Len(text_in) : text_in[i] \notin WordChars) =>
                  tokens = <<>>

C15_Witness ==
    /\ last_call.op = "tokenize_syllabic"
    /\ ~syllable_mode
    /\ \E k \in 1..Len(last_call.value) :
          /\ Len(last_call.value[k]) = 3
          /\ last_call.value[k][2] \in PunctChars
          /\ last_call.value[k][3] \in PunctChars
          /\ last_call.value[k][2] # last_call.value[k][3]

(* --------------------------- the log file, rotated -------------------- *)
\* most lines the log file holds before the program runs
MaxFileLines == 2

\* --fail-log
LogPath == <<"scan.log">>

\* readings of the UTC clock, as strftime("%Y%m%dT%H%M%SZ") formats them
Timestamps == {"T1", "T2"}

\* a line written to the log by an earlier run
OldLines == {[line |-> "old", text |-> "x"], [line |-> "old", text |-> "y"]}

RECURSIVE ContentsOfLen(_)
ContentsOfLen(n) ==
    IF n = 0 THEN {<<>>}
    ELSE {Append(c, l) : c \in ContentsOfLen(n - 1), l \in OldLines}

\* the file systems the program can start in: no log file, or one of up to
\* MaxFileLines lines
InitialFiles ==
    {NoFiles} \cup {dict_set(NoFiles, LogPath, c) :
                       c \in UNION {ContentsOfLen(n) : n \in 0..MaxFileLines}}

RotateInit ==
    /\ constructed
    /\ syllable_mode = FALSE
    /\ text_in = <<>>
    /\ files \in InitialFiles
    /\ args = NoArgs

rotate_log_file(log_path, max_size, compress, timestamp) ==
    LET r == rotate_log_file_result(files, log_path, max_size, compress, timestamp)
    IN  /\ files' = r.fs
        /\ args' = [fn |-> "rotate_log_file", log_path |-> log_path,
                    max_size |-> max_size, compress |-> compress,
                    timestamp |-> timestamp]
        /\ returned("rotate_log_file", "None", r.value)
        /\ UNCHANGED <<syllable_mode, engine_vars, ingested, thread_vars, text_in>>

\* a write to the path rotate_log_file returned: open(active_log, "a") and
\* one log_file.write
append_line(log_path, l) ==
    LET kept == IF isfile(files, log_path) THEN files[log_path] ELSE <<>>
    IN  /\ Len(kept) < MaxFileLines
        /\ files' = dict_set(files, log_path, Append(kept, l))
        /\ args' = [fn |-> "write"]
        /\ returned("write", "None", "None")
        /\ UNCHANGED <<syllable_mode, engine_vars, ingested, thread_vars, text_in>>

RotateNext ==
    \/ \E max_size \in 0..MaxFileLines, compress \in BOOLEAN,
          timestamp \in Timestamps :
          rotate_log_file(LogPath, max_size, compress, timestamp)
    \/ \E l \in OldLines : append_line(LogPath, l)

RotateSpec == RotateInit /\ [][RotateNext]_vars

\* C16: rotate_log_file returns the path it was given.  If a file is at the
\* path and its size is greater than max_size, then after the call no file
\* is at the path and the old content is under a sibling name ending in
\* .bak, or, with compress, gzip-compressed under one ending in .bak.gz
\* with no .bak left.  Otherwise the file system is as it was.
C16_RotateLogFile ==
    [][args'.fn = "rotate_log_file" =>
          LET path == args'.log_path
              bak == path \o <<".", args'.timestamp, ".bak">>
              gz == bak \o <<".gz">>
          IN  /\ last_call'.value = path
              /\ IF isfile(files, path) /\ getsize(files, path) > args'.max_size
                 THEN /\ ~isfile(files', path)
                      /\ IF args'.compress
                         THEN /\ isfile(files', gz)
                              /\ files'[gz] = gzip_copy(files[path])
                              /\ ~isfile(files', bak)
                         ELSE /\ isfile(files', bak)
                              /\ files'[bak] = files[path]
                 ELSE files' = files]_<<files, args>>

C16_Witness ==
    /\ args.fn = "rotate_log_file"
    /\ args.compress
    /\ args.max_size = 1
    /\ last_call.value = LogPath
    /\ ~isfile(files, LogPath)
    /\ \E l1, l2 \in OldLines :
          /\ l1 # l2
          /\ isfile(files, LogPath \o <<".", args.timestamp, ".bak", ".gz">>)
          /\ files[LogPath \o <<".", args.timestamp, ".bak", ".gz">>]
                = gzip_copy(<<l1, l2>>)
    /\ \E timestamp \in Timestamps :
          isfile(files, LogPath \o <<".", timestamp, ".bak">>)

(* ------------------------------- main --------------------------------- *)
\* what the files named on the command line hold: nothing, blanks only, one
\* token, a token twice, two tokens on two lines
MainTexts ==
    {<<>>, <<" ">>, <<"a">>, <<"a", " ", "a">>, <<"a", "\n", "b">>}

\* the parsed command line, as far as write_log reads it; fail_log is <<>>
\* without --fail-log
LogArgs ==
    [fail_log : {<<>>, LogPath}, append : BOOLEAN,
     max_log_size : 0..MaxFileLines, no_compress : BOOLEAN,
     metrics : BOOLEAN, clusters : BOOLEAN]

MainInit ==
    /\ constructed
    /\ text_in = <<>>
    /\ files \in InitialFiles
    /\ args = NoArgs

\* main is in "for file_path in args.files"
in_ingest_loop == last_call.op \in {"__init__", "ingest"}

\* main: engine.ingest(path.name, f.read())
main_ingest(source, raw) == in_ingest_loop /\ ingest(source, raw)

\* main: results = engine.verify_all()
main_verify_all == in_ingest_loop /\ verify_all

\* main: cluster_groups, then write_log(engine, results, cluster_groups, args)
\* when the clock reads timestamp; results is what verify_all just returned
write_log(a, timestamp) ==
    /\ last_call.op = "verify_all"
    /\ last_call.raised = "None"
    /\ LET r == write_log_result(engine, syllable_mode, last_call.value,
                                 cluster_groups_of(engine, a), a, files, timestamp)
       IN  /\ files' = r.fs
           /\ last_call' = [op |-> "write_log", source |-> "None",
                            value |-> "None", raised |-> r.raised]
    /\ args' = [fn |-> "write_log", fail_log |-> a.fail_log, append |-> a.append,
                max_log_size |-> a.max_log_size, no_compress |-> a.no_compress,
                metrics |-> a.metrics, clusters |-> a.clusters,
                timestamp |-> timestamp]
    /\ UNCHANGED <<syllable_mode, engine_vars, ingested, thread_vars, text_in>>

MainNext ==
    \/ \E source \in SourceKeys, raw \in MainTexts : main_ingest(source, raw)
    \/ main_verify_all
    \/ \E a \in LogArgs, timestamp \in Timestamps : write_log(a, timestamp)

MainSpec == MainInit /\ [][MainNext]_vars

\* the result lines of a log file
result_lines_in(content) == SelectSeq(content, LAMBDA l : l.line = "result")

\* C18: write_log called with a log path, after the ingest calls and
\* verify_all, does not raise and leaves in the log exactly one result line
\* for each known source, with its status, first token, last token and
\* checksum, also for a source whose text gave no token.
C18_WriteLogLinePerSource ==
    (last_call.op = "write_log" /\ args.fail_log # <<>>) =>
        /\ last_call.raised = "None"
        /\ LET written == result_lines_in(files[args.fail_log])
           IN  /\ Len(written) = Len(key_order)
               /\ \A i \in 1..Len(written) :
                     LET src == key_order[i]
                     IN  /\ written[i].src = src
                         /\ written[i].status_str.ok
                               = scan_complete_result(engine, src).value
                         /\ written[i].checksum = dump_value(engine, src)
                         /\ sources[src] # <<>> =>
                               /\ written[i].first_tok = sources[src][1]
                               /\ written[i].last_tok
                                     = sources[src][Len(sources[src])]

====
